---- MODULE Spec2Model ----
(***************************************************************************)
(* A model of the stivale2 bindings of stivale-rs (src/src/v2/mod.rs):     *)
(* the tag walker Stivale2Struct::get_tag and its typed accessors, the     *)
(* header constructor Stivale2Header::new, the packed record layouts and   *)
(* the terminal write closure of Stivale2StructTagTerminal.                *)
(*                                                                         *)
(* A u64 is written as four 16-bit limbs, most significant first, so that  *)
(* the 64-bit protocol identifiers keep their full width.                  *)
(***************************************************************************)
EXTENDS Integers, Sequences, FiniteSets, TLC

VARIABLES
    mem,        \* tag memory: address -> [identifier, next]
    tags,       \* Stivale2Struct.tags, the head of the chain
    pc,         \* position of the running lookup: "idle", "loop", "done"
    call,       \* the lookup in progress: [fn, id, ty]
    current,    \* get_tag's local `current`
    visited,    \* addresses dereferenced by the running lookup, in order
    result,     \* value returned by the lookup, None until it returns
    history,    \* first result returned for each identifier
    repeated,   \* the last finished lookup was of an identifier looked up before
    hpc,        \* Stivale2Header::new: "args", "built" or "panicked"
    hargs,      \* its arguments and the build's overflow checking
    hdr,        \* the header it returned
    lpc,        \* layout: "record", "encoded" or "decoded"
    lrec,       \* the record a producer lays out
    lbytes,     \* its bytes in memory
    ltag,       \* what the generic Stivale2Tag overlay reads from those bytes
    term,       \* a terminal tag handed over by the bootloader
    closure,    \* the closure get_term_func returned
    calls,      \* calls received by the bootloader's term_write routine
    texts       \* the texts the kernel passed to the closure

walkVars == <<mem, tags, pc, call, current, visited, result, history, repeated>>

headerVars == <<hpc, hargs, hdr>>

layoutVars == <<lpc, lrec, lbytes, ltag>>

termVars == <<term, closure, calls, texts>>

vars == <<walkVars, headerVars, layoutVars, termVars>>

-----------------------------------------------------------------------------
(* Bounds *)

\* Longest well-formed chain.
MaxNodes == 3

\* Most nodes of a chain that may be malformed (its last next may point back).
MaxLoopNodes == 2

-----------------------------------------------------------------------------
(* Protocol constants *)

NULL == 0

STIVALE2_HEADER_TAG_FRAMEBUFFER_ID == <<16076, 7108, 15631, 31089>>

STIVALE2_HEADER_TAG_TERMINAL_ID == <<43101, 18843, 6179, 48754>>

STIVALE2_STRUCT_TAG_FRAMEBUFFER_ID == <<20580, 25042, 38148, 2298>>

STIVALE2_STRUCT_TAG_TERMINAL_ID == <<49843, 62659, 9019, 2420>>

\* Identifiers the chains and the lookups are drawn from.
Ids ==
    { STIVALE2_STRUCT_TAG_TERMINAL_ID,
      STIVALE2_STRUCT_TAG_FRAMEBUFFER_ID,
      STIVALE2_HEADER_TAG_FRAMEBUFFER_ID }

-----------------------------------------------------------------------------
(* Chains laid out in memory *)

\* Sequences of n pairwise distinct addresses out of 1 .. m.
RECURSIVE InjSeqs(_, _)
InjSeqs(n, m) ==
    IF n = 0 THEN { <<>> }
    ELSE UNION { { Append(s, a) : a \in (1 .. m) \ { s[i] : i \in 1 .. (n - 1) } } :
                 s \in InjSeqs(n - 1, m) }

\* The memory holding nodes path[1], path[2], ... with identifiers ids[i];
\* the last node's next is `last`.
ChainMem(path, ids, last) ==
    [ a \in { path[i] : i \in 1 .. Len(path) } |->
        LET i == CHOOSE j \in 1 .. Len(path) : path[j] = a
        IN  [ identifier |-> ids[i],
              next |-> IF i < Len(path) THEN path[i + 1] ELSE last ] ]

HeadOf(path) == IF Len(path) = 0 THEN NULL ELSE path[1]

-----------------------------------------------------------------------------
(* Results *)

None == [ present |-> FALSE ]

Some(addr, ty) == [ present |-> TRUE, addr |-> addr, ty |-> ty ]

NoCall == [ fn |-> "none" ]

Unknown == [ known |-> FALSE ]

Fns == { "get_tag", "get_terminal", "get_framebuffer", "_get" }

\* Record shapes a caller of _get::<T> may name.
Types == { "Stivale2StructTagTerminal", "Stivale2StructTagFramebuffer" }

-----------------------------------------------------------------------------
(* Stivale2Struct::get_tag and the accessors built on it *)

\* The identifier an entry point hands to get_tag.
LookupIdMixedUp(fn, id) ==
    CASE fn = "get_terminal"    -> STIVALE2_STRUCT_TAG_FRAMEBUFFER_ID
      [] fn = "get_framebuffer" -> STIVALE2_STRUCT_TAG_TERMINAL_ID
      [] OTHER                  -> id

LookupId(fn, id) ==
    CASE fn = "get_terminal"    -> STIVALE2_STRUCT_TAG_TERMINAL_ID
      [] fn = "get_framebuffer" -> STIVALE2_STRUCT_TAG_FRAMEBUFFER_ID
      [] OTHER                  -> id

\* The type the found address is reinterpreted as.
ResultType(fn, ty) ==
    CASE fn = "get_tag"         -> "ptr"
      [] fn = "get_terminal"    -> "Stivale2StructTagTerminal"
      [] fn = "get_framebuffer" -> "Stivale2StructTagFramebuffer"
      [] OTHER                  -> ty

\* Where the scan starts: `let mut current = self.tags as *const ()`.
ScanStartResumed == IF pc = "done" /\ current # NULL THEN current ELSE tags

ScanStart == tags

\* Whether some node from address a on carries id (a well-formed chain only).
RECURSIVE CarriedFrom(_, _)
CarriedFrom(a, id) ==
    a # NULL /\ (mem[a].identifier = id \/ CarriedFrom(mem[a].next, id))

\* `(*_c).identifier == id`
MatchesNext(node, id) ==
    node.next # NULL /\ mem[node.next].identifier = id

MatchesLast(node, id) ==
    node.identifier = id /\ ~ CarriedFrom(node.next, id)

Matches(node, id) == node.identifier = id

\* `(*_c).next as *const ()`
NextPointerStuck(addr) == addr

NextPointer(addr) == mem[addr].next

\* The ghost trace of dereferenced addresses; it saturates at TraceCap so that
\* a scan that never ends has finitely many states.
TraceCap == 2 * MaxNodes + 2

Inspect(trace, addr) ==
    IF Len(trace) < TraceCap THEN Append(trace, addr) ELSE trace

Remember(h, id, r) ==
    IF h[id].known THEN h ELSE [ h EXCEPT ![id] = [ known |-> TRUE, value |-> r ] ]

\* Entry into get_tag, directly or through an accessor.
Call(fn, id, ty) ==
    /\ pc \in { "idle", "done" }
    /\ call' = [ fn |-> fn, arg |-> id, id |-> LookupId(fn, id), ty |-> ResultType(fn, ty) ]
    /\ current' = ScanStart
    /\ visited' = << >>
    /\ result' = None
    /\ repeated' = FALSE
    /\ pc' = "loop"
    /\ UNCHANGED <<mem, tags, history>>
    /\ UNCHANGED <<headerVars, layoutVars, termVars>>

\* `if current.is_null() { return None; }`
ReturnNone ==
    /\ pc = "loop"
    /\ current = NULL
    /\ result' = None
    /\ history' = Remember(history, call.id, None)
    /\ repeated' = history[call.id].known
    /\ pc' = "done"
    /\ UNCHANGED <<mem, tags, call, current, visited>>
    /\ UNCHANGED <<headerVars, layoutVars, termVars>>

\* `if (*_c).identifier == id { return Some(current); }`, then the accessor's cast.
ReturnSome ==
    /\ pc = "loop"
    /\ current # NULL
    /\ Matches(mem[current], call.id)
    /\ visited' = Inspect(visited, current)
    /\ result' = Some(current, call.ty)
    /\ history' = Remember(history, call.id, Some(current, "ptr"))
    /\ repeated' = history[call.id].known
    /\ pc' = "done"
    /\ UNCHANGED <<mem, tags, call, current>>
    /\ UNCHANGED <<headerVars, layoutVars, termVars>>

\* `current = (*_c).next as *const ()`
AdvanceDetectingCycle ==
    /\ pc = "loop"
    /\ current # NULL
    /\ ~ Matches(mem[current], call.id)
    /\ visited' = Inspect(visited, current)
    /\ IF NextPointer(current) \in { visited'[i] : i \in 1 .. Len(visited') }
       THEN /\ result' = None
            /\ pc' = "done"
            /\ UNCHANGED current
       ELSE /\ current' = NextPointer(current)
            /\ UNCHANGED <<pc, result>>
    /\ UNCHANGED <<mem, tags, call, history, repeated>>
    /\ UNCHANGED <<headerVars, layoutVars, termVars>>

Advance ==
    /\ pc = "loop"
    /\ current # NULL
    /\ ~ Matches(mem[current], call.id)
    /\ visited' = Inspect(visited, current)
    /\ current' = NextPointer(current)
    /\ UNCHANGED <<mem, tags, pc, call, result, history, repeated>>
    /\ UNCHANGED <<headerVars, layoutVars, termVars>>

LoopStep == ReturnNone \/ ReturnSome \/ Advance

\* The calls a kernel can make: get_tag(id), get_terminal(), get_framebuffer()
\* and _get::<T>(id).  An argument the entry point does not take is "-".
CallInputs ==
    { [ fn |-> "get_tag", id |-> id, ty |-> "-" ] : id \in Ids }
    \cup { [ fn |-> fn, id |-> "-", ty |-> "-" ] : fn \in { "get_terminal", "get_framebuffer" } }
    \cup { [ fn |-> "_get", id |-> id, ty |-> ty ] : id \in Ids, ty \in Types }

WalkIdle ==
    /\ pc = "idle"
    /\ call = NoCall
    /\ current = NULL
    /\ visited = << >>
    /\ result = None
    /\ history = [ id \in Ids |-> Unknown ]
    /\ repeated = FALSE

NoArgs == [ SIZE |-> 0 ]

NoHeader == [ built |-> FALSE ]

HeaderUnused == hpc = "unused" /\ hargs = NoArgs /\ hdr = NoHeader

NoRecord == [ shape |-> "none" ]

LayoutUnused == lpc = "unused" /\ lrec = NoRecord /\ lbytes = << >> /\ ltag = NoRecord

NoClosure == [ bound |-> FALSE ]

TermUnused == term = NoRecord /\ closure = NoClosure /\ calls = << >> /\ texts = << >>

WalkUnused == mem = << >> /\ tags = NULL /\ WalkIdle

\* A well-formed chain: acyclic, terminated by a null next.
Init ==
    /\ \E n \in 0 .. MaxNodes :
         \E path \in InjSeqs(n, MaxNodes), ids \in [ 1 .. n -> Ids ] :
            /\ mem = ChainMem(path, ids, NULL)
            /\ tags = HeadOf(path)
    /\ WalkIdle
    /\ HeaderUnused /\ LayoutUnused /\ TermUnused

Next ==
    \/ \E c \in CallInputs : Call(c.fn, c.id, c.ty)
    \/ ReturnNone
    \/ ReturnSome
    \/ Advance

Spec == Init /\ [][Next]_vars

\* Chains as an unchecked bootloader may leave them: the last node's next is
\* null or points back into the chain.
InitAnyChain ==
    /\ \E n \in 0 .. MaxLoopNodes :
         \E path \in InjSeqs(n, MaxLoopNodes), ids \in [ 1 .. n -> Ids ] :
            \E last \in { NULL } \cup { path[i] : i \in 1 .. n } :
               /\ mem = ChainMem(path, ids, last)
               /\ tags = HeadOf(path)
    /\ WalkIdle
    /\ HeaderUnused /\ LayoutUnused /\ TermUnused

\* The processor keeps executing a loop it has entered.
SpecAnyChain == InitAnyChain /\ [][Next]_vars /\ WF_vars(LoopStep)

-----------------------------------------------------------------------------
(* Stivale2Header::new *)

\* Width of usize in the model; arithmetic on it wraps at 2^UsizeBits.
UsizeBits == 16

\* Largest SIZE of the stack array handed to new.
MaxStackSize == 3

UsizeModulus == 2 ^ UsizeBits

Panic == [ ok |-> FALSE ]

Ok(v) == [ ok |-> TRUE, val |-> v ]

\* `a - b` on usize: a panic where the build checks overflow, a wrap elsewhere.
SubUsize(a, b, overflow_checks) ==
    IF a >= b THEN Ok(a - b)
    ELSE IF overflow_checks THEN Panic
    ELSE Ok((a - b) % UsizeModulus)

\* `SIZE - 1`
StackIndexOfBase(size, overflow_checks) == Ok(0)

StackIndex(size, overflow_checks) == SubUsize(size, 1, overflow_checks)

\* `&stack[i]` on a `&[u8; SIZE]` at `base`: bounds-checked indexing.
ElementAddrUnchecked(base, size, i) == Ok((base + i) % UsizeModulus)

ElementAddr(base, size, i) ==
    IF i < size THEN Ok(base + i) ELSE Panic

\* The arguments of a call: the array's address and length stand for `stack`.
StackBases == { 4096, UsizeModulus - MaxStackSize }

HeaderArgs ==
    [ entry_point : { NULL, 512 },
      base : StackBases,
      SIZE : 0 .. MaxStackSize,
      flags : { 0, 1 },
      tags : { NULL, 1024 },
      overflow_checks : BOOLEAN ]

New ==
    /\ hpc = "args"
    /\ LET i == StackIndex(hargs.SIZE, hargs.overflow_checks)
           p == IF i.ok THEN ElementAddr(hargs.base, hargs.SIZE, i.val) ELSE Panic
       IN  IF p.ok
           THEN /\ hdr' = [ built |-> TRUE,
                            entry_point |-> hargs.entry_point,
                            stack |-> p.val,
                            flags |-> hargs.flags,
                            tags |-> hargs.tags ]
                /\ hpc' = "built"
           ELSE /\ hdr' = NoHeader
                /\ hpc' = "panicked"
    /\ UNCHANGED hargs
    /\ UNCHANGED <<walkVars, layoutVars, termVars>>

InitHeader ==
    /\ hpc = "args"
    /\ hargs \in HeaderArgs
    /\ hdr = NoHeader
    /\ WalkUnused /\ LayoutUnused /\ TermUnused

NextHeader == New

SpecHeader == InitHeader /\ [][NextHeader]_vars

-----------------------------------------------------------------------------
(* Record layouts: #[repr(C, packed)] structs *)

\* Bytes of a raw pointer on the x86_64 targets stivale2 boots.
PointerBytes == 8

SizeOf(type) ==
    CASE type = "u8"  -> 1
      [] type = "u16" -> 2
      [] type = "u32" -> 4
      [] type = "u64" -> 8
      [] type = "ptr" -> PointerBytes

Stivale2Tag == << <<"identifier", "u64">>, <<"next", "ptr">> >>

Stivale2HeaderTagFrameBuffer ==
    << <<"identifier", "u64">>, <<"next", "ptr">>,
       <<"framebuffer_width", "u16">>, <<"framebuffer_height", "u16">>,
       <<"framebuffer_bpp", "u16">> >>

Stivale2HeaderTagTerminal ==
    << <<"identifier", "u64">>, <<"next", "ptr">>, <<"flags", "u64">> >>

Stivale2StructTagFramebuffer ==
    << <<"identifier", "u64">>, <<"next", "u64">>,
       <<"framebuffer_addr", "u64">>,
       <<"framebuffer_width", "u16">>, <<"framebuffer_height", "u16">>,
       <<"framebuffer_pitch", "u16">>, <<"framebuffer_bpp", "u16">>,
       <<"memory_model", "u8">>,
       <<"red_mask_size", "u8">>, <<"red_mask_shift", "u8">>,
       <<"green_mask_size", "u8">>, <<"green_mask_shift", "u8">>,
       <<"blue_mask_size", "u8">>, <<"blue_mask_shift", "u8">> >>

Stivale2StructTagTerminal ==
    << <<"identifier", "u64">>, <<"next", "u64">>,
       <<"flags", "u32">>, <<"cols", "u16">>, <<"rows", "u16">>,
       <<"term_write", "u64">> >>

Stivale2StructTagCmdline ==
    << <<"identifier", "u64">>, <<"next", "u64">>, <<"cmdline", "u64">> >>

Stivale2StructTagMemmap ==
    << <<"identifier", "u64">>, <<"next", "u64">>,
       <<"entries", "u64">>, <<"memmap", "ptr">> >>

Stivale2StructTagEpoch ==
    << <<"identifier", "u64">>, <<"next", "u64">>, <<"epoch", "u64">> >>

Stivale2StructTagFirmware ==
    << <<"identifier", "u64">>, <<"next", "u64">>, <<"flags", "u64">> >>

Stivale2StructTagEFISystemTable ==
    << <<"identifier", "u64">>, <<"next", "u64">>, <<"system_table", "u64">> >>

Stivale2StructTagKernelFile ==
    << <<"identifier", "u64">>, <<"next", "u64">>, <<"kernel_file", "u64">> >>

\* The concrete tag records of the module.
TagShapes ==
    { "Stivale2HeaderTagFrameBuffer", "Stivale2HeaderTagTerminal",
      "Stivale2StructTagFramebuffer", "Stivale2StructTagTerminal",
      "Stivale2StructTagCmdline", "Stivale2StructTagMemmap",
      "Stivale2StructTagEpoch", "Stivale2StructTagFirmware",
      "Stivale2StructTagEFISystemTable", "Stivale2StructTagKernelFile" }

\* The declared fields of a struct, in declaration order.
FieldsNextAsU32(shape) ==
    CASE shape = "Stivale2Tag" -> Stivale2Tag
      [] shape = "Stivale2HeaderTagFrameBuffer" -> Stivale2HeaderTagFrameBuffer
      [] shape = "Stivale2HeaderTagTerminal" -> Stivale2HeaderTagTerminal
      [] shape = "Stivale2StructTagFramebuffer" -> Stivale2StructTagFramebuffer
      [] shape = "Stivale2StructTagTerminal" ->
            [ Stivale2StructTagTerminal EXCEPT ![2] = <<"next", "u32">> ]
      [] shape = "Stivale2StructTagCmdline" -> Stivale2StructTagCmdline
      [] shape = "Stivale2StructTagMemmap" -> Stivale2StructTagMemmap
      [] shape = "Stivale2StructTagEpoch" -> Stivale2StructTagEpoch
      [] shape = "Stivale2StructTagFirmware" -> Stivale2StructTagFirmware
      [] shape = "Stivale2StructTagEFISystemTable" -> Stivale2StructTagEFISystemTable
      [] shape = "Stivale2StructTagKernelFile" -> Stivale2StructTagKernelFile

Fields(shape) ==
    CASE shape = "Stivale2Tag" -> Stivale2Tag
      [] shape = "Stivale2HeaderTagFrameBuffer" -> Stivale2HeaderTagFrameBuffer
      [] shape = "Stivale2HeaderTagTerminal" -> Stivale2HeaderTagTerminal
      [] shape = "Stivale2StructTagFramebuffer" -> Stivale2StructTagFramebuffer
      [] shape = "Stivale2StructTagTerminal" -> Stivale2StructTagTerminal
      [] shape = "Stivale2StructTagCmdline" -> Stivale2StructTagCmdline
      [] shape = "Stivale2StructTagMemmap" -> Stivale2StructTagMemmap
      [] shape = "Stivale2StructTagEpoch" -> Stivale2StructTagEpoch
      [] shape = "Stivale2StructTagFirmware" -> Stivale2StructTagFirmware
      [] shape = "Stivale2StructTagEFISystemTable" -> Stivale2StructTagEFISystemTable
      [] shape = "Stivale2StructTagKernelFile" -> Stivale2StructTagKernelFile

FieldIndex(shape, name) ==
    CHOOSE i \in 1 .. Len(Fields(shape)) : Fields(shape)[i][1] = name

FieldSize(shape, i) == SizeOf(Fields(shape)[i][2])

\* packed: a field starts where the one before it ends.
RECURSIVE OffsetOf(_, _)
OffsetOf(shape, i) ==
    IF i = 1 THEN 0 ELSE OffsetOf(shape, i - 1) + FieldSize(shape, i - 1)

StructSize(shape) ==
    OffsetOf(shape, Len(Fields(shape))) + FieldSize(shape, Len(Fields(shape)))

\* The k-th byte (k = 0 the least significant) of a u64 written as four limbs.
ByteOf(v, k) ==
    LET limb == v[4 - (k \div 2)]
    IN  IF k % 2 = 0 THEN limb % 256 ELSE limb \div 256

\* The low `size` bytes of v in the machine's (little-endian) order.
ToBytes(v, size) == [ k \in 1 .. size |-> ByteOf(v, k - 1) ]

\* The value of a field of up to 8 bytes read from memory, zero-extended.
FromBytes(bytes) ==
    LET b(k) == IF k <= Len(bytes) THEN bytes[k] ELSE 0
    IN  [ j \in 1 .. 4 |-> b(2 * (4 - j) + 1) + 256 * b(2 * (4 - j) + 2) ]

\* What a producer stores in a field of a record.
ValueOf(rec, name) ==
    CASE name = "identifier" -> rec.identifier
      [] name = "next" -> rec.next
      [] OTHER -> rec.fill

\* The bytes of the first n fields of a record.
RECURSIVE EncodeFields(_, _)
EncodeFields(rec, n) ==
    IF n = 0 THEN << >>
    ELSE EncodeFields(rec, n - 1)
         \o ToBytes(ValueOf(rec, Fields(rec.shape)[n][1]), FieldSize(rec.shape, n))

EncodeRecord(rec) == EncodeFields(rec, Len(Fields(rec.shape)))

\* `(*_c).name` with `_c: *const shape` pointing at the bytes.
ReadField(bytes, shape, name) ==
    LET i == FieldIndex(shape, name)
    IN  FromBytes(SubSeq(bytes, OffsetOf(shape, i) + 1,
                         OffsetOf(shape, i) + FieldSize(shape, i)))

\* A u64 holding a small number.
U64(n) == << 0, 0, n \div 65536, n % 65536 >>

Records ==
    [ shape : TagShapes,
      identifier : Ids \cup { STIVALE2_HEADER_TAG_TERMINAL_ID },
      next : { U64(NULL), U64(4096), << 65535, 4660, 0, 258 >> },
      fill : { U64(0), << 65535, 65535, 65535, 65535 >> } ]

\* The producer writes the record to memory.
Encode ==
    /\ lpc = "record"
    /\ lbytes' = EncodeRecord(lrec)
    /\ lpc' = "encoded"
    /\ UNCHANGED <<lrec, ltag>>
    /\ UNCHANGED <<walkVars, headerVars, termVars>>

\* get_tag reads the node through `current as *const Stivale2Tag`.
ReadThroughTag ==
    /\ lpc = "encoded"
    /\ ltag' = [ shape |-> "Stivale2Tag",
                 identifier |-> ReadField(lbytes, "Stivale2Tag", "identifier"),
                 next |-> ReadField(lbytes, "Stivale2Tag", "next") ]
    /\ lpc' = "decoded"
    /\ UNCHANGED <<lrec, lbytes>>
    /\ UNCHANGED <<walkVars, headerVars, termVars>>

InitLayout ==
    /\ lpc = "record"
    /\ lrec \in Records
    /\ lbytes = << >>
    /\ ltag = NoRecord
    /\ WalkUnused /\ HeaderUnused /\ TermUnused

NextLayout == Encode \/ ReadThroughTag

SpecLayout == InitLayout /\ [][NextLayout]_vars

-----------------------------------------------------------------------------
(* Stivale2StructTagTerminal::get_term_func *)

\* Most calls of the closure in a run.
MaxCalls == 2

\* Longest text passed to the closure, in bytes.
MaxTextLen == 2

\* A &str: the address of its bytes and the bytes (a NUL may be among them).
\* An empty &str still has a non-null address.
Texts ==
    [ ptr : { 1, 8192 },
      bytes : UNION { [ 1 .. n -> { 0, 65 } ] : n \in 0 .. MaxTextLen } ]

\* `_term_func(txt.as_ptr() as *const i8, txt.len() as u64)`: the calls the
\* bootloader's routine has received once the closure ran on txt.
DispatchSkippingEmpty(received, routine, txt) ==
    IF txt.bytes = << >> THEN received
    ELSE Append(received,
                [ routine |-> routine, ptr |-> txt.ptr, len |-> Len(txt.bytes) ])

Dispatch(received, routine, txt) ==
    Append(received,
           [ routine |-> routine, ptr |-> txt.ptr, len |-> Len(txt.bytes) ])

\* `self.term_write as *const ()`, transmuted to extern "C" fn(*const i8, u64)
\* and moved into the closure.
GetTermFunc ==
    /\ term # NoRecord
    /\ closure' = [ bound |-> TRUE, routine |-> term.term_write ]
    /\ UNCHANGED <<term, calls, texts>>
    /\ UNCHANGED <<walkVars, headerVars, layoutVars>>

\* The kernel calls the closure on a text.
CallClosure(txt) ==
    /\ closure.bound
    /\ Len(texts) < MaxCalls
    /\ calls' = Dispatch(calls, closure.routine, txt)
    /\ texts' = Append(texts, txt)
    /\ UNCHANGED <<term, closure>>
    /\ UNCHANGED <<walkVars, headerVars, layoutVars>>

TerminalTags ==
    [ shape : { "Stivale2StructTagTerminal" },
      identifier : { STIVALE2_STRUCT_TAG_TERMINAL_ID },
      next : { NULL },
      flags : { 0 },
      cols : { 80 },
      rows : { 25 },
      term_write : { 4096, 12288 } ]

InitTerm ==
    /\ term \in TerminalTags
    /\ closure = NoClosure
    /\ calls = << >>
    /\ texts = << >>
    /\ WalkUnused /\ HeaderUnused /\ LayoutUnused

NextTerm ==
    \/ GetTermFunc
    \/ \E txt \in Texts : CallClosure(txt)

SpecTerm == InitTerm /\ [][NextTerm]_vars

-----------------------------------------------------------------------------
(* The chain as the protocol describes it, read off the memory *)

\* The addresses met from a on, following next, at most `fuel` of them.
RECURSIVE WalkFrom(_, _)
WalkFrom(a, fuel) ==
    IF a = NULL \/ fuel = 0 THEN << >>
    ELSE << a >> \o WalkFrom(mem[a].next, fuel - 1)

ChainSeq == WalkFrom(tags, Cardinality(DOMAIN mem))

ChainLen == Len(ChainSeq)

IdAt(i) == mem[ChainSeq[i]].identifier

\* The chain ends in a null next (it holds no cycle).
Terminated == ChainLen = 0 \/ mem[ChainSeq[ChainLen]].next = NULL

Carriers(id) == { i \in 1 .. ChainLen : IdAt(i) = id }

\* Position of the occurrence of id closest to the head, 0 when there is none.
FirstIndex(id) ==
    IF Carriers(id) = {} THEN 0
    ELSE CHOOSE i \in Carriers(id) : \A j \in Carriers(id) : i <= j

DistinctIds == \A i, j \in 1 .. ChainLen : i # j => IdAt(i) # IdAt(j)

\* What a lookup of id must return.
Expected(id, ty) ==
    IF FirstIndex(id) = 0 THEN None ELSE Some(ChainSeq[FirstIndex(id)], ty)

Returned(fn) == pc = "done" /\ call.fn = fn

-----------------------------------------------------------------------------
(* Claims about the tag walker on well-formed chains *)

\* C1: on a well-formed chain of N >= 0 nodes with pairwise distinct
\* identifiers, get_tag(id) returns Some(address of the node carrying id) for
\* every identifier of the chain and None for every identifier no node
\* carries; with a null head it returns None for every id.
C1_DistinctLookup ==
    (Returned("get_tag") /\ Terminated /\ DistinctIds) =>
        /\ result = Expected(call.arg, "ptr")
        /\ (Carriers(call.arg) = {} => result = None)
        /\ (tags = NULL => result = None)
        /\ \A i \in 1 .. ChainLen :
              IdAt(i) = call.arg => result = Some(ChainSeq[i], "ptr")

\* A three-node chain of distinct identifiers whose last node was looked up.
C1_Witness ==
    /\ Returned("get_tag") /\ Terminated /\ DistinctIds
    /\ ChainLen = 3
    /\ IdAt(3) = call.arg
    /\ result = Some(ChainSeq[3], "ptr")

\* C2: when two or more nodes of a well-formed chain carry the identifier,
\* get_tag returns the address of the occurrence closest to the head and
\* never a later one.
C2_FirstOccurrenceWins ==
    (Returned("get_tag") /\ Terminated /\ Cardinality(Carriers(call.arg)) >= 2) =>
        /\ result.present
        /\ result.addr = ChainSeq[FirstIndex(call.arg)]
        /\ \A i \in Carriers(call.arg) :
              i # FirstIndex(call.arg) => result.addr # ChainSeq[i]

\* The identifier sits on the second and third node, and the second was returned.
C2_Witness ==
    /\ Returned("get_tag") /\ Terminated
    /\ ChainLen = 3
    /\ Carriers(call.arg) = { 2, 3 }
    /\ result = Some(ChainSeq[2], "ptr")

\* The identifier each accessor is documented to look up.
FixedId ==
    CASE call.fn = "get_terminal"    -> STIVALE2_STRUCT_TAG_TERMINAL_ID
      [] call.fn = "get_framebuffer" -> STIVALE2_STRUCT_TAG_FRAMEBUFFER_ID
      [] OTHER                       -> call.arg

\* C3: each typed accessor is the tag walker with a fixed identifier and a
\* reinterpretation: get_terminal() is present iff the terminal identifier is
\* found, get_framebuffer() iff the framebuffer identifier is found,
\* _get::<T>(id) iff id is found; the reference designates the address
\* get_tag returns, typed as the accessor's record whatever the node holds.
C3_AccessorIsWalker ==
    (pc = "done" /\ call.fn # "get_tag" /\ Terminated) =>
        /\ result.present <=> (FirstIndex(FixedId) # 0)
        /\ result.present =>
              /\ result.addr = ChainSeq[FirstIndex(FixedId)]
              /\ call.fn = "get_terminal" => result.ty = "Stivale2StructTagTerminal"
              /\ call.fn = "get_framebuffer" => result.ty = "Stivale2StructTagFramebuffer"
              /\ call.fn = "_get" => (result.ty \in Types /\ result.ty = call.ty)

\* get_terminal found the terminal tag behind a framebuffer tag.
C3_Witness ==
    /\ Returned("get_terminal") /\ Terminated
    /\ ChainLen >= 2
    /\ IdAt(1) = STIVALE2_STRUCT_TAG_FRAMEBUFFER_ID
    /\ IdAt(2) = STIVALE2_STRUCT_TAG_TERMINAL_ID
    /\ result = Some(ChainSeq[2], "Stivale2StructTagTerminal")

\* C7: on a well-formed chain of N nodes a lookup inspects at most N nodes,
\* head to tail along next, none twice and none behind the first match, and
\* stops at the first match or at the null terminator.
C7_LinearScan ==
    Terminated =>
        /\ Len(visited) <= ChainLen
        /\ visited = SubSeq(ChainSeq, 1, Len(visited))
        /\ \A i, j \in 1 .. Len(visited) : i # j => visited[i] # visited[j]
        /\ pc \in { "loop", "done" } =>
              \A i \in 1 .. Len(visited) :
                 IdAt(i) = call.id => (i = Len(visited) /\ pc = "done")
        /\ pc = "done" =>
              IF FirstIndex(call.id) # 0
              THEN Len(visited) = FirstIndex(call.id) /\ current = ChainSeq[FirstIndex(call.id)]
              ELSE Len(visited) = ChainLen /\ current = NULL

\* A scan of a three-node chain that stopped at the match on the second node.
C7_Witness ==
    /\ pc = "done" /\ Terminated
    /\ ChainLen = 3
    /\ FirstIndex(call.id) = 2
    /\ visited = SubSeq(ChainSeq, 1, 2)

\* C9: lookups are read-only and stateless: no call changes the head or any
\* tag, every lookup starts at the head, and a lookup repeated with the same
\* identifier returns what the first one returned, whatever ran in between.
C9_ReadOnly ==
    /\ [][mem' = mem /\ tags' = tags]_vars
    /\ [][pc' = "loop" /\ pc # "loop" => current' = tags]_vars
    /\ [](pc = "done" =>
            /\ history[call.id].known
            /\ history[call.id].value.present <=> result.present
            /\ result.present => history[call.id].value.addr = result.addr)

\* A lookup finished after an earlier lookup of the same identifier and a
\* lookup of another identifier.
C9_Witness ==
    /\ pc = "done" /\ result.present /\ repeated
    /\ Cardinality({ id \in Ids : history[id].known }) >= 2
    /\ history[call.id].value.addr = result.addr
    /\ ChainLen >= 2
    /\ result.addr = ChainSeq[2]

-----------------------------------------------------------------------------
(* Claims about the tag walker on malformed chains *)

\* A lookup running on a chain that holds a cycle.
OnCycle == ~ Terminated /\ pc = "loop"

\* C8: a cycle in the chain is not detected: a lookup of an identifier that a
\* reachable node carries still returns the first such node, and a lookup of
\* an identifier no reachable node carries never returns, neither Some nor
\* None, and raises no error: it keeps following next.
C8_CycleUndetected ==
    /\ [](~ Terminated /\ pc = "done" =>
            /\ FirstIndex(call.id) # 0
            /\ result = Some(ChainSeq[FirstIndex(call.id)], call.ty))
    /\ [](OnCycle /\ FirstIndex(call.id) = 0 => current # NULL /\ ENABLED Advance)
    /\ [][OnCycle /\ FirstIndex(call.id) = 0 => pc' = "loop" /\ call' = call]_vars
    /\ ((OnCycle /\ FirstIndex(call.id) # 0) ~> (pc = "done"))

\* get_tag has gone round a two-node cycle that does not carry the identifier
\* more often than the chain has nodes.
C8_Witness ==
    /\ OnCycle /\ call.fn = "get_tag"
    /\ FirstIndex(call.id) = 0
    /\ ChainLen = 2
    /\ Len(visited) > 2 * ChainLen

-----------------------------------------------------------------------------
(* Claims about Stivale2Header::new *)

\* The bytes of the array passed as `stack`.
StackRegion == hargs.base .. (hargs.base + hargs.SIZE - 1)

\* C5: for every stack region of SIZE >= 1 bytes, new returns a header whose
\* stack field is the highest address of the region, and whose entry_point,
\* flags and tags are the arguments.
C5_StackIsHighestAddress ==
    (hpc # "args" /\ hargs.SIZE >= 1) =>
        /\ hpc = "built"
        /\ hdr.stack \in StackRegion
        /\ \A a \in StackRegion : a <= hdr.stack
        /\ hdr.entry_point = hargs.entry_point
        /\ hdr.flags = hargs.flags
        /\ hdr.tags = hargs.tags

\* A header built over a three-byte region.
C5_Witness ==
    /\ hpc = "built"
    /\ hargs.SIZE = 3
    /\ hdr.stack = hargs.base + 2
    /\ hdr.flags = 1

\* C10: with an empty stack region (SIZE = 0) new never yields a header: the
\* index SIZE - 1 underflows and construction fails; a header is produced
\* only when SIZE >= 1.
C10_EmptyStackFails ==
    /\ (hargs.SIZE = 0 /\ hpc # "args") => (hpc = "panicked" /\ hdr = NoHeader)
    /\ (hpc = "built" \/ hdr # NoHeader) => hargs.SIZE >= 1

\* The call failed on an empty region in a build that lets SIZE - 1 wrap.
C10_Witness ==
    /\ hpc = "panicked"
    /\ hargs.SIZE = 0
    /\ ~ hargs.overflow_checks

-----------------------------------------------------------------------------
(* Claims about the record layouts *)

\* C6: prefix stability: a record of any concrete tag shape of the module,
\* read back through the generic Stivale2Tag header, yields the identifier
\* and the next value it was written with; identifier occupies bytes 0..8 and
\* next bytes 8..16 of every shape, and no shape holds padding.
C6_PrefixStability ==
    /\ \A shape \in TagShapes :
          /\ Fields(shape)[1][1] = "identifier"
          /\ OffsetOf(shape, 1) = 0 /\ FieldSize(shape, 1) = 8
          /\ Fields(shape)[2][1] = "next"
          /\ OffsetOf(shape, 2) = 8 /\ FieldSize(shape, 2) = 8
    /\ lpc \in { "encoded", "decoded" } =>
          /\ Len(lbytes) = StructSize(lrec.shape)
          /\ SubSeq(lbytes, 1, 8) = ToBytes(lrec.identifier, 8)
          /\ SubSeq(lbytes, 9, 16) = ToBytes(lrec.next, 8)
    /\ lpc = "decoded" =>
          /\ ltag.identifier = lrec.identifier
          /\ ltag.next = lrec.next

\* A terminal tag with a wide next and an all-ones payload, read back.
C6_Witness ==
    /\ lpc = "decoded"
    /\ lrec.shape = "Stivale2StructTagTerminal"
    /\ lrec.identifier = STIVALE2_STRUCT_TAG_TERMINAL_ID
    /\ lrec.next = << 65535, 4660, 0, 258 >>
    /\ lrec.fill = << 65535, 65535, 65535, 65535 >>
    /\ Len(lbytes) = 32
    /\ ltag.identifier = STIVALE2_STRUCT_TAG_TERMINAL_ID

-----------------------------------------------------------------------------
(* Claims about the terminal write closure *)

\* C4: every call of the closure returned by get_term_func invokes the
\* routine at term_write exactly once, with the text's start address and its
\* exact byte length and no terminator; on an empty text that is one call of
\* length 0, and no call changes the tag, the closure or the tag chain.
C4_OneExactCallPerText ==
    [][ texts' # texts =>
          LET txt == texts'[Len(texts')]
          IN  /\ texts' = Append(texts, txt)
              /\ calls' = Append(calls, [ routine |-> term.term_write,
                                          ptr |-> txt.ptr,
                                          len |-> Len(txt.bytes) ])
              /\ txt.bytes = << >> => calls'[Len(calls')].len = 0
              /\ UNCHANGED <<term, closure, mem, tags>> ]_vars

\* The closure was called on a two-byte text holding a NUL and then on an
\* empty text; the routine received lengths 2 and 0.
C4_Witness ==
    /\ Len(texts) = 2 /\ Len(calls) = 2
    /\ texts[1].bytes = << 65, 0 >>
    /\ texts[2].bytes = << >>
    /\ calls[1].len = 2
    /\ calls[2] = [ routine |-> term.term_write, ptr |-> texts[2].ptr, len |-> 0 ]

====
